---- MODULE Spec2Model ----
(***************************************************************************)
(* The deployment lifecycle of the opensourcer CLI: the Service object of   *)
(* package internal, its in-memory deployment list, the state file         *)
(* deployments.json, the deployment directories and the catalog directory. *)
(*                                                                         *)
(* A Service is constructed by NewService (one per CLI process) and then   *)
(* serves commands.  Two Services share the same home directory, as two    *)
(* CLI processes of one user do.  Every external call (docker, git, the    *)
(* file system) has its outcome drawn by the environment.                  *)
(***************************************************************************)
EXTENDS Integers, Sequences, FiniteSets, TLC

\* ------------------------------------------------------------------ bounds

\* time.Now() is modelled by a counter; no handler reads the clock past it.
MaxClock == 3

\* The same bound for the runs of two processes.
MaxRaceClock == 2

\* The inputs a definition declares and the inputs a user gives.
MaxDeclared == 2

MaxInputs == 2

\* The port mappings of a composition text, and the calls of
\* findExposedPort on one text.
MaxPortLines == 2

MaxPortCalls == 2

\* ------------------------------------------------------- the environment

Procs == {"p1", "p2"}

\* The catalog entries of the remote repository: each has an app.json and
\* a docker-compose.yaml.
Catalogued == {"ghost", "gitea"}

\* os.Args[2] as getArg returns it: "" is a missing argument.
Args == Catalogued \cup {""}

\* The inputs an app.json declares (CatalogDetail.Inputs), per slug.
DeclaredInputs(software) == IF software = "ghost" THEN {"domain"} ELSE {}

\* The port findExposedPort reads from the entry's composition file.
ComposePort(software) == IF software = "ghost" THEN 2368 ELSE 3000

EmptyMap == [k \in {} |-> ""]

\* The --key=value flags of one invocation (gofr's c.Param).
ParamChoices == {[k \in {"domain", "theme"} |-> IF k = "domain" THEN "example.org" ELSE ""]}

\* The --target flag: "" when it is not given.
Targets == {"", "aws", "gcp"}

\* ------------------------------------------------------------ file system

\* A deployment directory: whether it exists and holds docker-compose.yaml.
Absent == [exists |-> FALSE, compose |-> FALSE]

\* filepath.Join(s.configPath, "deployments", software)
DeployDir(software) == <<"deployments", software>>

Dirs == {DeployDir(s) : s \in Catalogued}

\* The state file deployments.json: missing, a complete JSON document, or
\* a truncated one (opened with O_TRUNC and not, or not fully, written).
Missing == [kind |-> "missing"]
Partial == [kind |-> "partial"]
Json(objs) == [kind |-> "json", deployments |-> objs]

VARIABLES
  procs,        \* the CLI processes that run
  deployments,  \* Service.deployments of each process
  file,         \* ~/.opensourcer/deployments.json
  dirs,         \* the deployment directories
  catalog,      \* the catalog directory: "absent", "plain" or "repo" (has .git)
  clock,        \* the wall clock
  nextID,       \* the identifiers uuid.New has handed out
  ret,          \* what the last call returned and did
  e2e,          \* how far the run has followed Deploy, Stop, Start, Destroy
  race,         \* how far two processes have run into each other's commits
  port,         \* a composition text and what findExposedPort returned for it
  env,          \* a definition, a map of inputs and what prepareEnvVars made of them
  drain         \* the slug the user has set out to destroy until it is gone, or ""

vars ==
  <<procs, deployments, file, dirs, catalog, clock, nextID, ret, e2e, race, port,
    env, drain>>

\* The inputs and results of the functions that are run on their own.
pure == <<port, env>>

\* ------------------------------------------------------------------- time

\* time.Now(): the instant read from the wall clock.
Now(clk) == clk

\* ------------------------------------------------------------------- JSON

\* json.Marshal of a LocalDeployment: an object keyed by the json tags of
\* types.go; a time.Time is written as its RFC 3339 instant.
MarshalDeployment(d) ==
  [id |-> d.ID, software |-> d.Software, target |-> d.Target,
   status |-> d.Status, directory |-> d.Directory, port |-> d.Port,
   inputs |-> d.Inputs, created_at |-> d.CreatedAt,
   updated_at |-> d.UpdatedAt]

MarshalList(list) == [i \in 1..Len(list) |-> MarshalDeployment(list[i])]

\* An UnmarshalDeployment whose updated_at tag is misspelt: the field is
\* never read and stays the zero time.
UnmarshalDeployment_tagTypo(j) ==
  [ID |-> j.id, Software |-> j.software, Target |-> j.target,
   Status |-> j.status, Directory |-> j.directory, Port |-> j.port,
   Inputs |-> j.inputs, CreatedAt |-> j.created_at, UpdatedAt |-> 0]

UnmarshalDeployment(j) ==
  [ID |-> j.id, Software |-> j.software, Target |-> j.target,
   Status |-> j.status, Directory |-> j.directory, Port |-> j.port,
   Inputs |-> j.inputs,
   CreatedAt |-> j.created_at, UpdatedAt |-> j.updated_at]

UnmarshalList(objs) == [i \in 1..Len(objs) |-> UnmarshalDeployment(objs[i])]

\* ------------------------------------------------------------------ store

\* loadDeployments: a missing or unparsable file leaves s.deployments as
\* it is.
loadDeployments(cur, f) ==
  IF f.kind = "json" THEN UnmarshalList(f.deployments) ELSE cur

\* saveDeployments: os.WriteFile opens the file with O_TRUNC and writes the
\* document; its error is dropped.  w is what happens to the write: "ok",
\* "openfail" (the open fails, the file is untouched), "writefail" (the
\* write fails after the truncation) or "killed" (the process dies between
\* the truncation and the end of the write).
saveDeployments(f, list, w) ==
  CASE w = "ok" -> Json(MarshalList(list))
    [] w = "openfail" -> f
    [] OTHER -> Partial

WriteOutcomes == {"ok", "openfail", "writefail", "killed"}

\* An addDeployment that reads the state file again before it appends.
addDeployment_reloadsFirst(list, f, d, w) ==
  LET l2 == Append(loadDeployments(list, f), d)
  IN [list |-> l2, file |-> saveDeployments(f, l2, w), save |-> w]

\* An addDeployment that replaces the records of the slug.
addDeployment_replacesSlug(list, f, d, w) ==
  LET l2 == Append(SelectSeq(list, LAMBDA x : x.Software # d.Software), d)
  IN [list |-> l2, file |-> saveDeployments(f, l2, w), save |-> w]

\* An addDeployment that saves before it appends.
addDeployment_saveFirst(list, f, d, w) ==
  [list |-> Append(list, d), file |-> saveDeployments(f, list, w), save |-> w]

addDeployment(list, f, d, w) ==
  LET l2 == Append(list, d)
  IN [list |-> l2, file |-> saveDeployments(f, l2, w), save |-> w]

\* A findDeployment that does not compare the slug.
findDeployment_anySlug(list, software) == IF Len(list) > 0 THEN 1 ELSE 0

\* The index of the first record of the slug, 0 for nil.
findDeployment(list, software) ==
  IF \E i \in 1..Len(list) : list[i].Software = software
  THEN CHOOSE i \in 1..Len(list) :
         /\ list[i].Software = software
         /\ \A k \in 1..(i - 1) : list[k].Software # software
  ELSE 0

FirstWithID(list, id) ==
  IF \E i \in 1..Len(list) : list[i].ID = id
  THEN CHOOSE i \in 1..Len(list) :
         /\ list[i].ID = id
         /\ \A k \in 1..(i - 1) : list[k].ID # id
  ELSE 0

\* An updateDeploymentStatus that stamps the creation time as well.
updateDeploymentStatus_stampsCreated(list, f, id, status, now, w) ==
  LET i == FirstWithID(list, id)
      l2 == [list EXCEPT ![i].Status = status, ![i].UpdatedAt = now,
                         ![i].CreatedAt = now]
  IN IF i = 0
     THEN [list |-> list, file |-> f, save |-> "none"]
     ELSE [list |-> l2, file |-> saveDeployments(f, l2, w), save |-> w]

updateDeploymentStatus(list, f, id, status, now, w) ==
  LET i == FirstWithID(list, id)
      l2 == [list EXCEPT ![i].Status = status, ![i].UpdatedAt = now]
  IN IF i = 0
     THEN [list |-> list, file |-> f, save |-> "none"]
     ELSE [list |-> l2, file |-> saveDeployments(f, l2, w), save |-> w]

removeDeployment(list, f, id, w) ==
  LET i == FirstWithID(list, id)
      l2 == SubSeq(list, 1, i - 1) \o SubSeq(list, i + 1, Len(list))
  IN IF i = 0
     THEN [list |-> list, file |-> f, save |-> "none"]
     ELSE [list |-> l2, file |-> saveDeployments(f, l2, w), save |-> w]

\* ----------------------------------------------------------------- engine

\* One run of an external command and whether it succeeded.
Call(op, ok) == <<op, ok>>

\* docker compose -f <dir>/docker-compose.yaml <op>, run in <dir>: it
\* cannot succeed without the directory and its composition file.
ComposeRuns(dir, ok) == ok /\ dir.exists /\ dir.compose

\* ---------------------------------------------------------------- catalog

\* getCatalogDetail: reads <catalog>/<software>/app.json.
getCatalogDetail(cat, software) ==
  IF cat # "absent" /\ software \in Catalogued THEN "nil" ELSE "NotFound"

\* copyDir(catalogDir, deployDir): copies the entry's files, the
\* composition file among them; a failing copy stops before that file.
copyDir(dir, software, ok) ==
  IF ok THEN [dir EXCEPT !.compose = TRUE] ELSE dir

\* ------------------------------------------------------------- deployLocal

\* What a handler hands back: its error, the external commands it ran, and
\* the list, the state file and the deployment directories as it leaves
\* them; ticked tells that it read the clock.
Result(err, calls, list, f, save, dirOf, ticked) ==
  [err |-> IF save = "killed" THEN "killed" ELSE err, calls |-> calls,
   list |-> list, file |-> f, save |-> save, dirs |-> dirOf, ticked |-> ticked]

\* e.fail names the external step that fails ("none": all succeed; "kill":
\* all succeed and the process dies between the bring-up and the commit of
\* the record), e.write the outcome of the state-file write.

NewRecord(software, inputs, clk, id) ==
  [ID |-> id, Software |-> software, Target |-> "local", Status |-> "running",
   Directory |-> DeployDir(software), Port |-> ComposePort(software),
   Inputs |-> inputs, CreatedAt |-> Now(clk), UpdatedAt |-> Now(clk)]

\* A bring-up that commits the record before it looks at the engine's answer.
bringUp_commitFirst(list, f, dirOf, software, inputs, e, clk, id) ==
  LET up == <<Call("info", TRUE), Call("up", e.fail # "up")>>
      added == addDeployment(list, f, NewRecord(software, inputs, clk, id), e.write)
  IN Result(IF e.fail = "up" THEN "EngineOperationFailed"
            ELSE IF e.fail = "kill" THEN "killed" ELSE "nil", up,
            added.list, added.file, added.save, dirOf, TRUE)

\* deployLocal, the bring-up: docker compose up -d, then the record.
bringUp(list, f, dirOf, software, inputs, e, clk, id) ==
  LET up == <<Call("info", TRUE), Call("up", e.fail # "up")>>
      added == addDeployment(list, f, NewRecord(software, inputs, clk, id), e.write)
  IN IF e.fail = "up"
     THEN Result("EngineOperationFailed", up, list, f, "none", dirOf, FALSE)
     ELSE IF e.fail = "kill"
     THEN Result("killed", up, list, f, "none", dirOf, FALSE)
     ELSE Result("nil", up, added.list, added.file, added.save, dirOf, TRUE)

\* deployLocal, the directory: MkdirAll, copyDir, the read of the
\* composition file, the write of .env.
materialize(list, f, dirOf, software, inputs, e, clk, id) ==
  LET deployDir == DeployDir(software)
      probe == <<Call("info", TRUE)>>
      made == [dirOf[deployDir] EXCEPT !.exists = TRUE]
      copied == copyDir(made, software, e.fail # "copy")
      with(dir) == [dirOf EXCEPT ![deployDir] = dir]
  IN IF e.fail = "mkdir" /\ ~dirOf[deployDir].exists
     THEN Result("MkdirFailed", probe, list, f, "none", dirOf, FALSE)
     ELSE IF e.fail = "copy"
     THEN Result("CopyFailed", probe, list, f, "none", with(copied), FALSE)
     ELSE IF e.fail = "read" \/ ~copied.compose
     THEN Result("ComposeNotFound", probe, list, f, "none", with(copied), FALSE)
     ELSE IF e.fail = "env"
     THEN Result("EnvWriteFailed", probe, list, f, "none", with(copied), FALSE)
     ELSE bringUp(list, f, with(copied), software, inputs, e, clk, id)

\* A deployLocal that creates the directory before it probes the engine.
deployLocal_mkdirFirst(list, f, dirOf, software, inputs, e, clk, id) ==
  IF e.fail = "probe"
  THEN Result("EngineUnavailable", <<Call("info", FALSE)>>, list, f, "none",
              [dirOf EXCEPT ![DeployDir(software)].exists = TRUE], FALSE)
  ELSE materialize(list, f, dirOf, software, inputs, e, clk, id)

\* deployLocal: checkDockerAvailable first.
deployLocal(list, f, dirOf, software, inputs, e, clk, id) ==
  IF e.fail = "probe"
  THEN Result("EngineUnavailable", <<Call("info", FALSE)>>, list, f, "none", dirOf, FALSE)
  ELSE materialize(list, f, dirOf, software, inputs, e, clk, id)

\* The flags Deploy reads for the declared inputs; empty values are left out.
ParseInputs(software, params) ==
  [k \in {x \in DeclaredInputs(software) \cap DOMAIN params : params[x] # ""}
     |-> params[k]]

\* Service.Deploy
DeployCall(list, f, dirOf, cat, software, in, clk, id) ==
  IF software = ""
  THEN Result("Usage", <<>>, list, f, "none", dirOf, FALSE)
  ELSE IF getCatalogDetail(cat, software) # "nil"
  THEN Result(getCatalogDetail(cat, software), <<>>, list, f, "none", dirOf, FALSE)
  ELSE IF in.target \in {"", "local"}
  THEN deployLocal(list, f, dirOf, software,
                   ParseInputs(software, in.params), in.e, clk, id)
  ELSE IF in.target = "aws"
  THEN Result("NotImplemented", <<>>, list, f, "none", dirOf, FALSE)
  ELSE Result("UnknownTarget", <<>>, list, f, "none", dirOf, FALSE)

\* -------------------------------------------------- stop, start, destroy

\* A stopDocker that records the status of startDocker.
stopDocker_running(list, f, dirOf, i, e, clk) ==
  LET ok == ComposeRuns(dirOf[list[i].Directory], e.engine)
      upd == updateDeploymentStatus(list, f, list[i].ID, "running", Now(clk), e.write)
  IN IF ~ok
     THEN Result("EngineOperationFailed", <<Call("stop", FALSE)>>, list, f, "none", dirOf, FALSE)
     ELSE Result("nil", <<Call("stop", TRUE)>>, upd.list, upd.file, upd.save, dirOf, TRUE)

stopDocker(list, f, dirOf, i, e, clk) ==
  LET ok == ComposeRuns(dirOf[list[i].Directory], e.engine)
      upd == updateDeploymentStatus(list, f, list[i].ID, "stopped", Now(clk), e.write)
  IN IF ~ok
     THEN Result("EngineOperationFailed", <<Call("stop", FALSE)>>, list, f, "none", dirOf, FALSE)
     ELSE Result("nil", <<Call("stop", TRUE)>>, upd.list, upd.file, upd.save, dirOf, TRUE)

\* A startDocker that records the status before it looks at the engine's
\* answer.
startDocker_updateFirst(list, f, dirOf, i, e, clk) ==
  LET ok == ComposeRuns(dirOf[list[i].Directory], e.engine)
      upd == updateDeploymentStatus(list, f, list[i].ID, "running", Now(clk), e.write)
  IN Result(IF ok THEN "nil" ELSE "EngineOperationFailed",
            <<Call("start", ok)>>, upd.list, upd.file, upd.save, dirOf, TRUE)

\* startDocker: docker compose start, then the status.
startDocker(list, f, dirOf, i, e, clk) ==
  LET ok == ComposeRuns(dirOf[list[i].Directory], e.engine)
      upd == updateDeploymentStatus(list, f, list[i].ID, "running", Now(clk), e.write)
  IN IF ~ok
     THEN Result("EngineOperationFailed", <<Call("start", FALSE)>>, list, f, "none", dirOf, FALSE)
     ELSE Result("nil", <<Call("start", TRUE)>>, upd.list, upd.file, upd.save, dirOf, TRUE)

\* A destroyDocker that removes the directory whatever the engine answers.
destroyDocker_removeAnyway(dirOf, d, e) ==
  LET ok == ComposeRuns(dirOf[d.Directory], e.engine)
  IN [err |-> IF ok THEN "nil" ELSE "EngineOperationFailed",
      calls |-> <<Call("down", ok)>>,
      dirs |-> [dirOf EXCEPT ![d.Directory] = Absent]]

\* destroyDocker: docker compose down -v, then os.RemoveAll of the directory.
destroyDocker(dirOf, d, e) ==
  LET ok == ComposeRuns(dirOf[d.Directory], e.engine)
  IN IF ~ok
     THEN [err |-> "EngineOperationFailed", calls |-> <<Call("down", FALSE)>>,
           dirs |-> dirOf]
     ELSE [err |-> "nil", calls |-> <<Call("down", TRUE)>>,
           dirs |-> [dirOf EXCEPT ![d.Directory] = Absent]]

getDockerLogs(list, f, dirOf, i, e) ==
  LET ok == ComposeRuns(dirOf[list[i].Directory], e.engine)
  IN Result(IF ok THEN "nil" ELSE "EngineOperationFailed",
            <<Call("logs", ok)>>, list, f, "none", dirOf, FALSE)

\* A Stop that refuses a deployment that is stopped already.
StopCall_refusesStopped(list, f, dirOf, software, e, clk) ==
  LET i == findDeployment(list, software)
  IN IF software = ""
     THEN Result("Usage", <<>>, list, f, "none", dirOf, FALSE)
     ELSE IF i = 0
     THEN Result("NotFound", <<>>, list, f, "none", dirOf, FALSE)
     ELSE IF list[i].Status = "stopped"
     THEN Result("AlreadyStopped", <<>>, list, f, "none", dirOf, FALSE)
     ELSE stopDocker(list, f, dirOf, i, e, clk)

\* Service.Stop
StopCall(list, f, dirOf, software, e, clk) ==
  LET i == findDeployment(list, software)
  IN IF software = ""
     THEN Result("Usage", <<>>, list, f, "none", dirOf, FALSE)
     ELSE IF i = 0
     THEN Result("NotFound", <<>>, list, f, "none", dirOf, FALSE)
     ELSE stopDocker(list, f, dirOf, i, e, clk)

\* Service.Start
StartCall(list, f, dirOf, software, e, clk) ==
  LET i == findDeployment(list, software)
  IN IF software = ""
     THEN Result("Usage", <<>>, list, f, "none", dirOf, FALSE)
     ELSE IF i = 0
     THEN Result("NotFound", <<>>, list, f, "none", dirOf, FALSE)
     ELSE startDocker(list, f, dirOf, i, e, clk)

\* Service.Logs
LogsCall(list, f, dirOf, software, e) ==
  LET i == findDeployment(list, software)
  IN IF software = ""
     THEN Result("Usage", <<>>, list, f, "none", dirOf, FALSE)
     ELSE IF i = 0
     THEN Result("NotFound", <<>>, list, f, "none", dirOf, FALSE)
     ELSE getDockerLogs(list, f, dirOf, i, e)

\* Service.Destroy
DestroyCall(list, f, dirOf, software, e) ==
  LET i == findDeployment(list, software)
      dd == destroyDocker(dirOf, list[i], e)
      rem == removeDeployment(list, f, list[i].ID, e.write)
  IN IF software = ""
     THEN Result("Usage", <<>>, list, f, "none", dirOf, FALSE)
     ELSE IF i = 0
     THEN Result("NotFound", <<>>, list, f, "none", dirOf, FALSE)
     ELSE IF dd.err # "nil"
     THEN Result(dd.err, dd.calls, list, f, "none", dd.dirs, FALSE)
     ELSE Result("nil", dd.calls, rem.list, rem.file, rem.save, dd.dirs, FALSE)

\* ----------------------------------------------------------------- update

\* cloneCatalog: git clone into <catalog>.tmp, rename it to <catalog>, drop
\* its .git; the deferred RemoveAll clears what a failure leaves of .tmp.
cloneCatalog(cat, e) ==
  IF e.git
  THEN [err |-> "nil", calls |-> <<Call("clone", TRUE)>>, catalog |-> "plain"]
  ELSE [err |-> "CloneFailed", calls |-> <<Call("clone", FALSE)>>, catalog |-> cat]

\* pullCatalog: a catalog directory without .git is removed and cloned anew.
pullCatalog(cat, e) ==
  IF cat = "absent" THEN cloneCatalog(cat, e)
  ELSE IF cat = "plain" THEN cloneCatalog("absent", e)
  ELSE IF e.git
  THEN [err |-> "nil", calls |-> <<Call("pull", TRUE)>>, catalog |-> cat]
  ELSE [err |-> "PullFailed", calls |-> <<Call("pull", FALSE)>>, catalog |-> cat]

\* Service.Update
UpdateCall(cat, e) ==
  IF cat = "absent" THEN cloneCatalog(cat, e) ELSE pullCatalog(cat, e)

\* ------------------------------------------------------- findExposedPort

\* A composition text is a sequence of tokens; a port mapping of its ports:
\* list is the line  - "host:container"  with double quotes, single quotes
\* or none.
PortLine(q, host, container) ==
  IF q = "" THEN <<"- ", host, ":", container, "\n">>
  ELSE <<"- ", q, host, ":", container, q, "\n">>

\* strings.Contains
Contains(text, pat) ==
  \E i \in 1..(Len(text) - Len(pat) + 1) :
    SubSeq(text, i, i + Len(pat) - 1) = pat

\* portMap, in the order the source writes its entries.
portMap ==
  << [port |-> "2368", portNum |-> 2368],
     [port |-> "3000", portNum |-> 3000],
     [port |-> "3001", portNum |-> 3001],
     [port |-> "5678", portNum |-> 5678],
     [port |-> "8000", portNum |-> 8000],
     [port |-> "8065", portNum |-> 8065],
     [port |-> "8080", portNum |-> 8080],
     [port |-> "8096", portNum |-> 8096],
     [port |-> "80", portNum |-> 80] >>

\* for port, portNum := range portMap: portMap is a Go map, and the order
\* of a range over a map is not specified.  Each order below starts at
\* another entry, so that every entry can be the first one visited.
Rotate(seq, k) == SubSeq(seq, k + 1, Len(seq)) \o SubSeq(seq, 1, k)

IterationOrders == {Rotate(portMap, k) : k \in 0..(Len(portMap) - 1)}

\* The body of the range loop, from the i-th entry visited on.
RECURSIVE FirstFound(_, _, _)
FirstFound(composeContent, order, i) ==
  IF i > Len(order) THEN 0
  ELSE IF \/ Contains(composeContent, <<"- ", "\"", order[i].port, ":">>)
          \/ Contains(composeContent, <<"- ", "'", order[i].port, ":">>)
  THEN order[i].portNum
  ELSE FirstFound(composeContent, order, i + 1)

findExposedPort(composeContent, order) == FirstFound(composeContent, order, 1)

\* The port mappings and the composition texts findExposedPort is given.
PortLines ==
  {PortLine(q, m[1], m[2]) :
     q \in {"\"", "'", ""},
     m \in {<<"80", "80">>, <<"8080", "8080">>, <<"8080", "80">>,
            <<"3000", "3000">>, <<"9000", "9000">>}}

RECURSIVE TextsOf(_)
TextsOf(n) ==
  IF n = 0 THEN {<<>>}
  ELSE TextsOf(n - 1) \cup {t \o l : t \in TextsOf(n - 1), l \in PortLines}

ComposeTexts == TextsOf(MaxPortLines)

NoPort == [text |-> <<>>, out |-> <<>>]

\* --------------------------------------------------------- prepareEnvVars

\* A string is the sequence of its characters.
Lower ==
  << "a", "b", "c", "d", "e", "f", "g", "h", "i", "j", "k", "l", "m",
     "n", "o", "p", "q", "r", "s", "t", "u", "v", "w", "x", "y", "z" >>

Upper ==
  << "A", "B", "C", "D", "E", "F", "G", "H", "I", "J", "K", "L", "M",
     "N", "O", "P", "Q", "R", "S", "T", "U", "V", "W", "X", "Y", "Z" >>

\* unicode.ToUpper of a lower-case letter
UpperOf ==
  [c \in {Lower[n] : n \in 1..Len(Lower)} |->
     Upper[CHOOSE n \in 1..Len(Lower) : Lower[n] = c]]

\* strings.ToUpper
ToUpper(str) ==
  [i \in 1..Len(str) |->
     IF str[i] \in DOMAIN UpperOf THEN UpperOf[str[i]] ELSE str[i]]

\* strings.ReplaceAll, of one character by another
ReplaceAll(str, old, new) ==
  [i \in 1..Len(str) |-> IF str[i] = old THEN new ELSE str[i]]

HexDigits ==
  << "0", "1", "2", "3", "4", "5", "6", "7", "8", "9", "a", "b", "c", "d",
     "e", "f" >>

\* hex.EncodeToString: two digits a byte, the high one first.
EncodeToString(bytes) ==
  [i \in 1..(2 * Len(bytes)) |->
     IF i % 2 = 1
     THEN HexDigits[(bytes[(i + 1) \div 2] \div 16) + 1]
     ELSE HexDigits[(bytes[i \div 2] % 16) + 1]]

\* rand.Read on a buffer of n zero bytes.  r.kind is what the random source
\* does: "ok", it fills the buffer (every byte r.fill); "error", it fails
\* and Read returns an error, the buffer left as make made it; "fatal", it
\* fails and the runtime ends the process.  Which of the last two a failing
\* source gives depends on the Go release the program is built with.
Read(n, r) == [i \in 1..n |-> IF r.kind = "ok" THEN r.fill ELSE 0]

RandOutcomes ==
  {[kind |-> "ok", fill |-> 171]}
  \cup {[kind |-> k, fill |-> 0] : k \in {"error", "fatal"}}

\* generatePassword: the error of rand.Read is not looked at.
generatePassword(length, r) ==
  ToUpper(SubSeq(EncodeToString(Read(length \div 2 + 1, r)), 1, length))

keyDomain == <<"d", "o", "m", "a", "i", "n">>
keyTimezone == <<"t", "i", "m", "e", "z", "o", "n", "e">>
keyBasicAuthUser ==
  <<"b", "a", "s", "i", "c", "_", "a", "u", "t", "h", "_", "u", "s", "e", "r">>
keyBasicAuthPassword ==
  << "b", "a", "s", "i", "c", "_", "a", "u", "t", "h", "_",
     "p", "a", "s", "s", "w", "o", "r", "d" >>
keyAdminUser == <<"a", "d", "m", "i", "n", "_", "u", "s", "e", "r">>
keyAdminPassword ==
  <<"a", "d", "m", "i", "n", "_", "p", "a", "s", "s", "w", "o", "r", "d">>
keyAdminEmail == <<"a", "d", "m", "i", "n", "_", "e", "m", "a", "i", "l">>
keySiteTitle == <<"s", "i", "t", "e", "_", "t", "i", "t", "l", "e">>

\* Two keys the table does not have.
keyAdminPasswordHyphen ==
  <<"a", "d", "m", "i", "n", "-", "p", "a", "s", "s", "w", "o", "r", "d">>
keyApiKey == <<"a", "p", "i", "-", "k", "e", "y">>

DOMAIN_ == <<"D", "O", "M", "A", "I", "N">>
DB_PASSWORD == <<"D", "B", "_", "P", "A", "S", "S", "W", "O", "R", "D">>
ADMIN_PASSWORD ==
  <<"A", "D", "M", "I", "N", "_", "P", "A", "S", "S", "W", "O", "R", "D">>
SECRET_KEY == <<"S", "E", "C", "R", "E", "T", "_", "K", "E", "Y">>
localhost == <<"l", "o", "c", "a", "l", "h", "o", "s", "t">>

\* keyMapping, a key and its environment name per entry.
keyMapping ==
  { <<keyDomain, DOMAIN_>>,
    <<keyTimezone, <<"T", "I", "M", "E", "Z", "O", "N", "E">>>>,
    <<keyBasicAuthUser,
      <<"B", "A", "S", "I", "C", "_", "A", "U", "T", "H", "_", "U", "S", "E", "R">>>>,
    <<keyBasicAuthPassword,
      << "B", "A", "S", "I", "C", "_", "A", "U", "T", "H", "_",
         "P", "A", "S", "S", "W", "O", "R", "D" >>>>,
    <<keyAdminUser, <<"A", "D", "M", "I", "N", "_", "U", "S", "E", "R">>>>,
    <<keyAdminPassword, ADMIN_PASSWORD>>,
    <<keyAdminEmail, <<"A", "D", "M", "I", "N", "_", "E", "M", "A", "I", "L">>>>,
    <<keySiteTitle, <<"S", "I", "T", "E", "_", "T", "I", "T", "L", "E">>>> }

\* envKey of the two loops: the upper-cased key with underscores for
\* hyphens, or the table's name when the table has the key.
EnvKey(key) ==
  IF \E m \in keyMapping : m[1] = key
  THEN (CHOOSE m \in keyMapping : m[1] = key)[2]
  ELSE ToUpper(ReplaceAll(key, "-", "_"))

\* envVars[k] = v
Put(envVars, k, v) ==
  [x \in DOMAIN envVars \cup {k} |-> IF x = k THEN v ELSE envVars[x]]

\* An apply loop that does not skip the empty values.
RECURSIVE ApplyInputs_keepsEmpty(_, _, _, _)
ApplyInputs_keepsEmpty(envVars, inputs, order, i) ==
  IF i > Len(order) THEN envVars
  ELSE ApplyInputs_keepsEmpty(Put(envVars, EnvKey(order[i]), inputs[order[i]]),
                              inputs, order, i + 1)

\* for key, value := range inputs, in the order the range visits the map,
\* from the i-th key visited on.
RECURSIVE ApplyInputs(_, _, _, _)
ApplyInputs(envVars, inputs, order, i) ==
  IF i > Len(order) THEN envVars
  ELSE IF inputs[order[i]] = <<>>
  THEN ApplyInputs(envVars, inputs, order, i + 1)
  ELSE ApplyInputs(Put(envVars, EnvKey(order[i]), inputs[order[i]]),
                   inputs, order, i + 1)

\* A generate loop that does not look whether the name has a value.
RECURSIVE GeneratePasswords_overwrites(_, _, _, _, _)
GeneratePasswords_overwrites(envVars, declared, order, i, r) ==
  IF i > Len(order) THEN envVars
  ELSE IF declared[order[i]] = "password"
  THEN GeneratePasswords_overwrites(
         Put(envVars, EnvKey(order[i]), generatePassword(12, r)),
         declared, order, i + 1, r)
  ELSE GeneratePasswords_overwrites(envVars, declared, order, i + 1, r)

\* for key, input := range detail.Inputs, from the i-th key visited on.
RECURSIVE GeneratePasswords(_, _, _, _, _)
GeneratePasswords(envVars, declared, order, i, r) ==
  IF i > Len(order) THEN envVars
  ELSE IF EnvKey(order[i]) \notin DOMAIN envVars /\ declared[order[i]] = "password"
  THEN GeneratePasswords(Put(envVars, EnvKey(order[i]), generatePassword(12, r)),
                         declared, order, i + 1, r)
  ELSE GeneratePasswords(envVars, declared, order, i + 1, r)

\* prepareEnvVars(detail, inputs): declared is detail.Inputs, inOrder and
\* declOrder the orders in which the two range loops visit their maps.
prepareEnvVars(declared, inputs, inOrder, declOrder, r) ==
  LET defaults ==
        Put(Put(Put(<<>>, DB_PASSWORD, generatePassword(16, r)),
                ADMIN_PASSWORD, generatePassword(12, r)),
            SECRET_KEY, generatePassword(48, r))
      applied == ApplyInputs(defaults, inputs, inOrder, 1)
      generated == GeneratePasswords(applied, declared, declOrder, 1, r)
  IN IF DOMAIN_ \in DOMAIN generated THEN generated
     ELSE Put(generated, DOMAIN_, localhost)

\* The orders a range can visit the keys of a map in.
Orders(m) ==
  {o \in [1..Cardinality(DOMAIN m) -> DOMAIN m] :
     \A i, k \in 1..Cardinality(DOMAIN m) : o[i] = o[k] => i = k}

\* The keys, the input types and the values prepareEnvVars is given.
InputKeys == {keyDomain, keyAdminPassword, keyAdminPasswordHyphen, keyApiKey}

InputTypes == {"password", "text"}

InputValues == {<<>>, <<"a">>, <<"b">>}

MapsOf(keys, values, n) ==
  UNION {[K -> values] : K \in {S \in SUBSET keys : Cardinality(S) <= n}}

NoEnv ==
  [declared |-> <<>>, inputs |-> <<>>, done |-> FALSE, rand |-> "",
   fatal |-> FALSE, out |-> <<>>]

\* ------------------------------------------------------------ the tracker

\* e2e.stage = n: the calls so far, after any Update calls, are the first
\* n of Deploy(s), Stop(s), Start(s), Destroy(s) on one Service, each
\* returning no error; e2e.stops counts the engine stop commands run.
\* Any other call switches the tracker off (stage -1).
Script == <<"Deploy", "Stop", "Start", "Destroy">>

Untracked == [stage |-> -1, proc |-> "", arg |-> "", stops |-> 0]

Stops(calls) == Cardinality({i \in 1..Len(calls) : calls[i][1] = "stop"})

Track(t, r) ==
  IF t.stage = 0 /\ r.op = "Update" THEN t
  ELSE IF /\ t.stage \in 0..3
          /\ r.op = Script[t.stage + 1]
          /\ r.err = "nil"
          /\ (t.stage = 0 \/ (r.proc = t.proc /\ r.arg = t.arg))
  THEN [stage |-> t.stage + 1, proc |-> r.proc, arg |-> r.arg,
        stops |-> t.stops + Stops(r.calls)]
  ELSE Untracked

\* race.stage = 1: with two processes running, each holding the list the
\* state file records, process race.proc has committed one mutation with
\* success; race.change is what it changed, the records it put (added or
\* rewrote) and the IDs it deleted.  race.stage = 2: the other process has
\* then committed one mutation with success, and race.proc is that process.
\* Any other call switches the tracker back (stage 0).
NoRace == [stage |-> 0, proc |-> "", change |-> [put |-> {}, del |-> {}]]

Range(seq) == {seq[i] : i \in 1..Len(seq)}

IDs(list) == {list[i].ID : i \in 1..Len(list)}

Change(old, new) ==
  [put |-> Range(new) \ Range(old), del |-> IDs(old) \ IDs(new)]

\* Every running process holds the list the state file records.
InSync(running, lists, f) ==
  \A q \in running : lists[q] = loadDeployments(<<>>, f)

RaceTrack(t, r, running, lists, f, new) ==
  IF r.save = "ok" /\ r.err = "nil" /\ Cardinality(running) = 2
  THEN IF t.stage = 1 /\ r.proc # t.proc
       THEN [t EXCEPT !.stage = 2, !.proc = r.proc]
       ELSE IF InSync(running, lists, f)
       THEN [stage |-> 1, proc |-> r.proc, change |-> Change(lists[r.proc], new)]
       ELSE NoRace
  ELSE NoRace

\* ---------------------------------------------------------------- actions

\* The environment's choices for a call: the step that fails, if one does,
\* and the outcome of the state-file write of a call that gets that far.
DeployEnvs ==
  {[fail |-> x, write |-> "ok"] :
     x \in {"probe", "mkdir", "copy", "read", "env", "up", "kill"}}
  \cup {[fail |-> "none", write |-> w] : w \in WriteOutcomes}

DefaultInput == [params |-> EmptyMap, target |-> "", e |-> [fail |-> "none", write |-> "ok"]]

DeployInputs(cat, software) ==
  IF getCatalogDetail(cat, software) # "nil" THEN {DefaultInput}
  ELSE {[DefaultInput EXCEPT !.target = t] : t \in Targets \ {""}}
       \cup {[params |-> ps, target |-> "", e |-> e] :
               ps \in ParamChoices, e \in DeployEnvs}

EngineEnvs ==
  {[engine |-> FALSE, write |-> "ok"]}
  \cup {[engine |-> TRUE, write |-> w] : w \in WriteOutcomes}

Returned(p, op, arg, r) ==
  [proc |-> p, op |-> op, arg |-> arg, err |-> r.err, calls |-> r.calls,
   save |-> r.save]

\* A lifecycle call of process p ends: the Service keeps the list; a killed
\* process loses it, and the Service of its next invocation is constructed
\* from the state file.
Finish(p, op, arg, r) ==
  /\ deployments' = [deployments EXCEPT
                       ![p] = IF r.err = "killed"
                              THEN loadDeployments(<<>>, r.file)
                              ELSE r.list]
  /\ file' = r.file
  /\ dirs' = r.dirs
  /\ clock' = IF r.ticked THEN clock + 1 ELSE clock
  /\ ret' = Returned(p, op, arg, r)
  /\ e2e' = Track(e2e, Returned(p, op, arg, r))
  /\ race' = RaceTrack(race, Returned(p, op, arg, r), procs, deployments, file, r.list)
  /\ UNCHANGED <<procs, pure, drain>>

Init ==
  /\ procs = {"p1"}
  /\ deployments = [p \in Procs |-> <<>>]
  /\ file = Missing
  /\ dirs = [d \in Dirs |-> Absent]
  /\ catalog = "absent"
  /\ clock = 1
  /\ nextID = 1
  /\ ret = [proc |-> "", op |-> "", arg |-> "", err |-> "nil", calls |-> <<>>,
            save |-> "none"]
  /\ e2e = [stage |-> 0, proc |-> "", arg |-> "", stops |-> 0]
  /\ race = NoRace
  /\ port = NoPort
  /\ env = NoEnv
  /\ drain = ""

\* A NewService that loads into the list of the Service before it.
NewService_keepsList(p) ==
  /\ p \in procs
  /\ deployments' = [deployments EXCEPT ![p] = loadDeployments(deployments[p], file)]
  /\ ret' = [proc |-> p, op |-> "NewService", arg |-> "", err |-> "nil",
             calls |-> <<>>, save |-> "none"]
  /\ e2e' = Untracked
  /\ race' = NoRace
  /\ UNCHANGED <<procs, file, dirs, catalog, clock, nextID, pure, drain>>

\* NewService: a CLI process starts and loads the state file.
NewService(p) ==
  /\ p \in procs
  /\ deployments' = [deployments EXCEPT ![p] = loadDeployments(<<>>, file)]
  /\ ret' = [proc |-> p, op |-> "NewService", arg |-> "", err |-> "nil",
             calls |-> <<>>, save |-> "none"]
  /\ e2e' = Untracked
  /\ race' = NoRace
  /\ UNCHANGED <<procs, file, dirs, catalog, clock, nextID, pure, drain>>

Deploy(p) ==
  /\ p \in procs
  /\ \E arg \in Args :
    \E in \in DeployInputs(catalog, arg) :
      LET r == DeployCall(deployments[p], file, dirs, catalog, arg, in, clock, nextID)
      IN /\ clock <= MaxClock
         /\ Finish(p, "Deploy", arg, r)
         /\ nextID' = IF r.ticked THEN nextID + 1 ELSE nextID
         /\ UNCHANGED catalog

Stop(p) ==
  /\ p \in procs
  /\ \E arg \in Args, e \in EngineEnvs :
    LET r == StopCall(deployments[p], file, dirs, arg, e, clock)
    IN /\ clock <= MaxClock
       /\ Finish(p, "Stop", arg, r)
       /\ UNCHANGED <<catalog, nextID>>

Start(p) ==
  /\ p \in procs
  /\ \E arg \in Args, e \in EngineEnvs :
    LET r == StartCall(deployments[p], file, dirs, arg, e, clock)
    IN /\ clock <= MaxClock
       /\ Finish(p, "Start", arg, r)
       /\ UNCHANGED <<catalog, nextID>>

Destroy(p) ==
  /\ p \in procs
  /\ \E arg \in Args, e \in EngineEnvs :
    LET r == DestroyCall(deployments[p], file, dirs, arg, e)
    IN /\ Finish(p, "Destroy", arg, r)
       /\ UNCHANGED <<catalog, nextID>>

Logs(p) ==
  /\ p \in procs
  /\ \E arg \in Args, engine \in BOOLEAN :
    LET r == LogsCall(deployments[p], file, dirs, arg, [engine |-> engine])
    IN /\ Finish(p, "Logs", arg, r)
       /\ UNCHANGED <<catalog, nextID>>

Update(p) ==
  /\ p \in procs
  /\ \E git \in BOOLEAN :
    LET r == UpdateCall(catalog, [git |-> git])
        rr == [proc |-> p, op |-> "Update", arg |-> "", err |-> r.err,
               calls |-> r.calls, save |-> "none"]
    IN /\ catalog' = r.catalog
       /\ ret' = rr
       /\ e2e' = Track(e2e, rr)
       /\ race' = NoRace
       /\ UNCHANGED <<procs, deployments, file, dirs, clock, nextID, pure, drain>>

Next ==
  \E p \in Procs :
    \/ NewService(p)
    \/ Deploy(p)
    \/ Stop(p)
    \/ Start(p)
    \/ Destroy(p)
    \/ Logs(p)
    \/ Update(p)

Spec == Init /\ [][Next]_vars

\* The user sets out to destroy the deployment of a slug and to invoke
\* destroy again until it is gone.
BeginRetry(p) ==
  /\ p \in procs
  /\ drain = ""
  /\ \E s \in Catalogued : drain' = s
  /\ UNCHANGED <<procs, deployments, file, dirs, catalog, clock, nextID, ret,
                 e2e, race, pure>>

\* One more destroy of that slug, the engine reachable and the state file
\* writable.
Retry(p) ==
  /\ p \in procs
  /\ drain # ""
  /\ LET r == DestroyCall(deployments[p], file, dirs, drain,
                          [engine |-> TRUE, write |-> "ok"])
     IN Finish(p, "Destroy", drain, r)
  /\ UNCHANGED <<catalog, nextID>>

\* Update, Deploy, Stop, Start and Destroy in any order and with any
\* outcome, then nothing but the repeated destroy, which is not given up.
NextRetry ==
  \E p \in Procs :
    \/ drain = "" /\ Update(p)
    \/ drain = "" /\ Deploy(p)
    \/ drain = "" /\ Stop(p)
    \/ drain = "" /\ Start(p)
    \/ drain = "" /\ Destroy(p)
    \/ BeginRetry(p)
    \/ Retry(p)

SpecRetry ==
  Init /\ [][NextRetry]_vars /\ WF_vars(\E p \in Procs : Retry(p))

\* Two CLI processes of one user on the same home directory, both
\* constructed before the first command file exists.
InitRace ==
  /\ procs = Procs
  /\ deployments = [p \in Procs |-> <<>>]
  /\ file = Missing
  /\ dirs = [d \in Dirs |-> Absent]
  /\ catalog = "absent"
  /\ clock = 1
  /\ nextID = 1
  /\ ret = [proc |-> "", op |-> "", arg |-> "", err |-> "nil", calls |-> <<>>,
            save |-> "none"]
  /\ e2e = [stage |-> 0, proc |-> "", arg |-> "", stops |-> 0]
  /\ race = NoRace
  /\ port = NoPort
  /\ env = NoEnv
  /\ drain = ""

\* findExposedPort on its own: one composition text, read again and again.
InitPort ==
  /\ procs = {"p1"}
  /\ deployments = [p \in Procs |-> <<>>]
  /\ file = Missing
  /\ dirs = [d \in Dirs |-> Absent]
  /\ catalog = "absent"
  /\ clock = 1
  /\ nextID = 1
  /\ ret = [proc |-> "", op |-> "", arg |-> "", err |-> "nil", calls |-> <<>>,
            save |-> "none"]
  /\ e2e = [stage |-> 0, proc |-> "", arg |-> "", stops |-> 0]
  /\ race = NoRace
  /\ port \in {[text |-> t, out |-> <<>>] : t \in ComposeTexts}
  /\ env = NoEnv
  /\ drain = ""

FindPort ==
  /\ Len(port.out) < MaxPortCalls
  /\ \E order \in IterationOrders :
       port' = [port EXCEPT !.out = Append(@, findExposedPort(port.text, order))]
  /\ UNCHANGED <<procs, deployments, file, dirs, catalog, clock, nextID, ret,
                 e2e, race, env, drain>>

NextPort == FindPort

SpecPort == InitPort /\ [][NextPort]_vars

\* prepareEnvVars on its own: one definition and one map of user inputs.
InitEnv ==
  /\ procs = {"p1"}
  /\ deployments = [p \in Procs |-> <<>>]
  /\ file = Missing
  /\ dirs = [d \in Dirs |-> Absent]
  /\ catalog = "absent"
  /\ clock = 1
  /\ nextID = 1
  /\ ret = [proc |-> "", op |-> "", arg |-> "", err |-> "nil", calls |-> <<>>,
            save |-> "none"]
  /\ e2e = [stage |-> 0, proc |-> "", arg |-> "", stops |-> 0]
  /\ race = NoRace
  /\ port = NoPort
  /\ env \in {[NoEnv EXCEPT !.declared = d, !.inputs = in] :
                d \in MapsOf(InputKeys, InputTypes, MaxDeclared),
                in \in MapsOf(InputKeys, InputValues, MaxInputs)}
  /\ drain = ""

\* deployLocal calls prepareEnvVars; a process the runtime ends returns
\* nothing.
PrepareEnv ==
  /\ ~env.done
  /\ \E r \in RandOutcomes, inOrder \in Orders(env.inputs),
        declOrder \in Orders(env.declared) :
       env' = [env EXCEPT
                 !.done = TRUE,
                 !.rand = r.kind,
                 !.fatal = (r.kind = "fatal"),
                 !.out = IF r.kind = "fatal" THEN <<>>
                         ELSE prepareEnvVars(env.declared, env.inputs, inOrder,
                                             declOrder, r)]
  /\ UNCHANGED <<procs, deployments, file, dirs, catalog, clock, nextID, ret,
                 e2e, race, port, drain>>

NextEnv == PrepareEnv

SpecEnv == InitEnv /\ [][NextEnv]_vars

\* The state file is written whole whenever it is written, and no process
\* is killed.
Calm == ret.save \in {"ok", "none"} /\ ret.err # "killed"

NextRace ==
  \E p \in Procs :
    \/ NewService(p) /\ Calm'
    \/ clock <= MaxRaceClock /\ Deploy(p) /\ Calm'
    \/ clock <= MaxRaceClock /\ Stop(p) /\ Calm'
    \/ clock <= MaxRaceClock /\ Start(p) /\ Calm'
    \/ Destroy(p) /\ Calm'
    \/ Logs(p) /\ Calm'
    \/ Update(p) /\ Calm'

SpecRace == InitRace /\ [][NextRace]_vars

\* ----------------------------------------------------------------- claims

RecordsOf(list, software) == {i \in 1..Len(list) : list[i].Software = software}

\* C1: in every Service, at most one record of the deployment list has a
\* given slug as its Software, whatever calls were made.
C1_OneRecordPerSlug ==
  \A p \in procs : \A s \in Catalogued :
    Cardinality(RecordsOf(deployments[p], s)) <= 1

C3_ProbeFirst ==
  [][ret'.op = "Deploy" =>
       /\ (\E i \in 1..Len(ret'.calls) : ret'.calls[i] = Call("info", FALSE)) =>
            /\ ret'.err = "EngineUnavailable"
            /\ deployments' = deployments
            /\ file' = file
            /\ dirs' = dirs
       /\ (deployments' # deployments \/ file' # file \/ dirs' # dirs) =>
            /\ Len(ret'.calls) >= 1
            /\ ret'.calls[1] = Call("info", TRUE)]_vars

C3_ProbeFailed ==
  /\ ret.op = "Deploy"
  /\ ret.err = "EngineUnavailable"
  /\ catalog # "absent"
  /\ ~dirs[DeployDir(ret.arg)].exists
  /\ RecordsOf(deployments[ret.proc], ret.arg) = {}

\* C4: Stop, Start, Destroy and Logs on a slug that has no record fail with
\* the not-found error, run no external command and leave the list, the
\* state file and the directories as they were.
C4_UnknownSlug ==
  [][(/\ ret'.op \in {"Stop", "Start", "Destroy", "Logs"}
      /\ ret'.arg # ""
      /\ RecordsOf(deployments[ret'.proc], ret'.arg) = {}) =>
       /\ ret'.err = "NotFound"
       /\ ret'.calls = <<>>
       /\ ret'.save = "none"
       /\ deployments' = deployments
       /\ file' = file
       /\ dirs' = dirs]_vars

C4_StopUnknown ==
  /\ ret.op = "Stop"
  /\ ret.err = "NotFound"
  /\ deployments[ret.proc] # <<>>
  /\ file.kind = "json"

\* C5: a Destroy whose engine tear-down fails returns an error and leaves
\* the list, the state file and the directories as they were; a Destroy
\* that changes any of them has run the tear-down with success.
C5_DestroyFailClosed ==
  [][ret'.op = "Destroy" =>
       /\ ret'.calls = <<Call("down", FALSE)>> =>
            /\ ret'.err = "EngineOperationFailed"
            /\ deployments' = deployments
            /\ file' = file
            /\ dirs' = dirs
       /\ (deployments' # deployments \/ file' # file \/ dirs' # dirs) =>
            ret'.calls = <<Call("down", TRUE)>>]_vars

C5_TearDownFailed ==
  /\ ret.op = "Destroy"
  /\ ret.err = "EngineOperationFailed"
  /\ RecordsOf(deployments[ret.proc], ret.arg) # {}
  /\ dirs[DeployDir(ret.arg)].compose

\* C6: a Deploy that returns an error leaves the list and the state file as
\* they were; a Deploy that changes either has run the bring-up with
\* success.
C6_CommitAfterBringUp ==
  [][ret'.op = "Deploy" =>
       /\ ret'.err \notin {"nil", "killed"} =>
            /\ deployments' = deployments
            /\ file' = file
            /\ ret'.save = "none"
       /\ (deployments' # deployments \/ file' # file) =>
            /\ Len(ret'.calls) = 2
            /\ ret'.calls[2] = Call("up", TRUE)]_vars

C6_BringUpFailed ==
  /\ ret.op = "Deploy"
  /\ ret.err = "EngineOperationFailed"
  /\ deployments[ret.proc] # <<>>
  /\ dirs[DeployDir(ret.arg)].compose

\* C7 as claimed: after a call that rewrote the state file returns, the
\* file holds the in-memory list, whatever the outcome of the write.
C7_ReconciledAlways ==
  [][ret'.save \in {"ok", "openfail", "writefail"} =>
       file' = Json(MarshalList(deployments'[ret'.proc]))]_vars

\* C7 as amended: after a call that rewrote the state file returns, the
\* file holds the in-memory list, in content and order, when the write
\* succeeded.
C7_ReconciledOnSuccess ==
  [][ret'.save = "ok" =>
       file' = Json(MarshalList(deployments'[ret'.proc]))]_vars

C7_Rewritten ==
  /\ ret.save = "ok"
  /\ ret.op = "Stop"
  /\ Len(deployments[ret.proc]) >= 2
  /\ file = Json(MarshalList(deployments[ret.proc]))

C9_BadFileIsEmpty ==
  [][/\ (ret'.op = "NewService" /\ file.kind # "json") =>
          /\ ret'.err = "nil"
          /\ deployments'[ret'.proc] = <<>>
     /\ (/\ ret.op = "NewService"
         /\ file.kind # "json"
         /\ ret'.proc = ret.proc
         /\ ret'.op \in {"Stop", "Start", "Destroy", "Logs"}
         /\ ret'.arg # "") =>
          ret'.err = "NotFound"]_vars

C9_LoadedTruncated ==
  /\ ret.op = "NewService"
  /\ file.kind = "partial"
  /\ deployments[ret.proc] = <<>>
  /\ \E d \in Dirs : dirs[d].exists

\* C10: every rewrite of the state file leaves a complete document: the
\* file never holds an empty, truncated or partly written content.
C10_AtomicRewrite == [][file' # file => file'.kind = "json"]_vars

\* The engine command of a Stop or a Start.
EngineCmd(op) == IF op = "Stop" THEN "stop" ELSE "start"

\* C18: a Stop (a Start) whose engine stop (start) fails returns an error
\* and leaves the record's status and update time, the rest of the list and
\* the state file as they were; a Stop or Start that changes the list or
\* the file has run its engine command with success.
C18_StatusAfterEngine ==
  [][ret'.op \in {"Stop", "Start"} =>
       /\ ret'.calls = <<Call(EngineCmd(ret'.op), FALSE)>> =>
            /\ ret'.err = "EngineOperationFailed"
            /\ ret'.save = "none"
            /\ deployments' = deployments
            /\ file' = file
       /\ (deployments' # deployments \/ file' # file) =>
            ret'.calls = <<Call(EngineCmd(ret'.op), TRUE)>>]_vars

C18_StartFailed ==
  /\ ret.op = "Start"
  /\ ret.err = "EngineOperationFailed"
  /\ \E i \in RecordsOf(deployments[ret.proc], ret.arg) :
       deployments[ret.proc][i].Status = "stopped"
  /\ file = Json(MarshalList(deployments[ret.proc]))

\* The fields of a record that no status change touches.
Frozen(d) ==
  <<d.ID, d.Software, d.Target, d.Directory, d.Port, d.Inputs, d.CreatedAt>>

\* C19: a Stop or Start that succeeds keeps the length and the order of the
\* list, keeps every field but Status and UpdatedAt of the record it
\* targets and keeps every other record whole; and across every step the
\* records of a list that carry the same ID before and after carry the same
\* Software, Target, Directory, Port, Inputs and CreatedAt.
C19_OnlyStatusAndTime ==
  [][/\ (ret'.op \in {"Stop", "Start"} /\ ret'.err = "nil") =>
          LET old == deployments[ret'.proc]
              new == deployments'[ret'.proc]
              t == findDeployment(old, ret'.arg)
          IN /\ Len(new) = Len(old)
             /\ \A i \in 1..Len(old) :
                  /\ Frozen(new[i]) = Frozen(old[i])
                  /\ i # t => new[i] = old[i]
             /\ \A q \in Procs \ {ret'.proc} : deployments'[q] = deployments[q]
     /\ \A p \in Procs :
          \A i \in 1..Len(deployments[p]), k \in 1..Len(deployments'[p]) :
            deployments'[p][k].ID = deployments[p][i].ID =>
              Frozen(deployments'[p][k]) = Frozen(deployments[p][i])]_vars

C19_StoppedOneOfTwo ==
  /\ ret.op = "Stop"
  /\ ret.err = "nil"
  /\ Len(deployments[ret.proc]) = 2
  /\ deployments[ret.proc][1].Status = "stopped"
  /\ deployments[ret.proc][1].UpdatedAt # deployments[ret.proc][1].CreatedAt
  /\ deployments[ret.proc][2].Status = "running"
  /\ deployments[ret.proc][2].UpdatedAt = deployments[ret.proc][2].CreatedAt

Statuses(list) == [i \in 1..Len(list) |-> list[i].Status]

\* C20: a Stop on a record that is stopped, and a Start on a record that is
\* running, is not refused: it runs its engine command and fails only when
\* that command fails; when the command succeeds the call returns no error
\* and the list has the records and the statuses it had.
C20_Idempotent ==
  [][LET old == deployments[ret'.proc]
         new == deployments'[ret'.proc]
         t == findDeployment(old, ret'.arg)
     IN (/\ ret'.op \in {"Stop", "Start"}
         /\ ret'.arg # ""
         /\ t # 0
         /\ old[t].Status = (IF ret'.op = "Stop" THEN "stopped" ELSE "running")) =>
          /\ Len(ret'.calls) = 1
          /\ ret'.calls[1][1] = EngineCmd(ret'.op)
          /\ ret'.calls[1][2] = (ret'.err # "EngineOperationFailed")
          /\ ret'.err \in {"nil", "EngineOperationFailed", "killed"}
          /\ ret'.err = "nil" =>
               /\ Len(new) = Len(old)
               /\ Statuses(new) = Statuses(old)]_vars

\* A second Stop in a row: the file keeps the stop before it, the list has
\* the one just made.
C20_StoppedTwice ==
  /\ ret.op = "Stop"
  /\ ret.err = "nil"
  /\ ret.save = "openfail"
  /\ Len(deployments[ret.proc]) = 1
  /\ file.kind = "json"
  /\ Len(file.deployments) = 1
  /\ deployments[ret.proc][1].Status = "stopped"
  /\ UnmarshalDeployment(file.deployments[1]).Status = "stopped"
  /\ deployments[ret.proc][1].UpdatedAt
       = UnmarshalDeployment(file.deployments[1]).UpdatedAt + 1

\* The slug was deployed before: a record of it is tracked, or its
\* deployment directory is there, left by a Deploy that did not commit.
DeployedBefore(list, dirOf, software) ==
  RecordsOf(list, software) # {} \/ dirOf[DeployDir(software)].exists

Existing(dirOf) == {d \in Dirs : dirOf[d].exists}

\* C17 as claimed: a Deploy that succeeds for a slug deployed before adds a
\* record whose directory is a second one: it was not on disk before the
\* call and is the directory of no earlier record.
C17_SecondDirectory ==
  [][LET old == deployments[ret'.proc]
         new == deployments'[ret'.proc]
     IN (/\ ret'.op = "Deploy"
         /\ ret'.err = "nil"
         /\ DeployedBefore(old, dirs, ret'.arg)) =>
          /\ new # <<>>
          /\ ~dirs[new[Len(new)].Directory].exists
          /\ \A i \in 1..Len(old) : old[i].Directory # new[Len(new)].Directory]_vars

\* C17 as amended: a Deploy that succeeds for a slug deployed before is not
\* told apart from a first one: it materializes into the one directory
\* deployments/<slug>, the directory of every earlier record of the slug,
\* creates no other directory, and appends one record, with a new ID and
\* that same directory, keeping every earlier record.
C17_SameDirectoryNewRecord ==
  [][LET old == deployments[ret'.proc]
         new == deployments'[ret'.proc]
     IN (/\ ret'.op = "Deploy"
         /\ ret'.err = "nil"
         /\ DeployedBefore(old, dirs, ret'.arg)) =>
          /\ Len(new) = Len(old) + 1
          /\ SubSeq(new, 1, Len(old)) = old
          /\ new[Len(new)].Software = ret'.arg
          /\ new[Len(new)].Directory = DeployDir(ret'.arg)
          /\ \A i \in 1..Len(old) : old[i].ID # new[Len(new)].ID
          /\ \A i \in RecordsOf(old, ret'.arg) :
               old[i].Directory = new[Len(new)].Directory
          /\ Existing(dirs') = Existing(dirs) \cup {DeployDir(ret'.arg)}
          /\ ret'.calls = <<Call("info", TRUE), Call("up", TRUE)>>]_vars

C17_DeployedTwice ==
  /\ ret.op = "Deploy"
  /\ ret.err = "nil"
  /\ Len(deployments[ret.proc]) = 2
  /\ deployments[ret.proc][1].Software = ret.arg
  /\ deployments[ret.proc][2].Software = ret.arg
  /\ deployments[ret.proc][1].Directory = deployments[ret.proc][2].Directory
  /\ deployments[ret.proc][1].ID # deployments[ret.proc][2].ID

\* C11: when two processes that hold the same list each commit one
\* mutation with success, one after the other, the later commit returns no
\* error and leaves in the state file the list of the later writer alone:
\* no record the earlier writer put is in the file, and every record the
\* earlier writer deleted is.
C11_LaterWriterWins ==
  race.stage = 2 =>
    /\ ret.proc = race.proc
    /\ ret.err = "nil"
    /\ file = Json(MarshalList(deployments[race.proc]))
    /\ \A d \in race.change.put : MarshalDeployment(d) \notin Range(file.deployments)
    /\ \A id \in race.change.del : \E j \in Range(file.deployments) : j.id = id

\* The lost update: the earlier writer still holds the record it committed,
\* the state file the later writer left does not.
C11_LostUpdate ==
  /\ race.stage = 2
  /\ ret.err = "nil"
  /\ file = Json(MarshalList(deployments[race.proc]))
  /\ \E q \in procs \ {race.proc} :
       \E d \in race.change.put :
         /\ d \in Range(deployments[q])
         /\ d.ID \notin IDs(deployments[race.proc])

\* C12: every call of findExposedPort on a composition text returns the
\* port that comes first, in the order of the table as written, among the
\* ports whose pattern occurs in the text, and 0 when none occurs; so all
\* calls on one text return the same value.
C12_FirstInTableOrder ==
  \A i \in 1..Len(port.out) :
    port.out[i] = findExposedPort(port.text, portMap)

\* prepareEnvVars has returned a set of variables.
Prepared == env.done /\ ~env.fatal

\* The user inputs with a value that translate to an environment name.
GivenFor(name) ==
  {k \in DOMAIN env.inputs : env.inputs[k] # <<>> /\ EnvKey(k) = name}

\* C13 as claimed: every user input with a non-empty value is in the
\* result, verbatim, under the environment name its key translates to.
C13_EveryInputVerbatim ==
  Prepared =>
    \A k \in DOMAIN env.inputs :
      env.inputs[k] # <<>> =>
        /\ EnvKey(k) \in DOMAIN env.out
        /\ env.out[EnvKey(k)] = env.inputs[k]

\* C13 as amended: every environment name that a user input with a
\* non-empty value translates to holds, verbatim, the value of such an
\* input, never a generated default or secret; it is the value of the one
\* input when no second one translates to the same name.
C13_InputVerbatimPerName ==
  Prepared =>
    \A k \in DOMAIN env.inputs :
      env.inputs[k] # <<>> =>
        /\ EnvKey(k) \in DOMAIN env.out
        /\ env.out[EnvKey(k)] \in {env.inputs[g] : g \in GivenFor(EnvKey(k))}
        /\ GivenFor(EnvKey(k)) = {k} => env.out[EnvKey(k)] = env.inputs[k]

\* A password input the table does not have, given by the user: its value
\* stands where the baseline secret stood.
C13_UserPasswordKept ==
  /\ Prepared
  /\ keyAdminPasswordHyphen \in DOMAIN env.inputs
  /\ env.inputs[keyAdminPasswordHyphen] = <<"a">>
  /\ keyAdminPasswordHyphen \in DOMAIN env.declared
  /\ env.declared[keyAdminPasswordHyphen] = "password"
  /\ env.out[ADMIN_PASSWORD] = <<"a">>

\* C14: the result of prepareEnvVars has a non-empty value under the
\* environment name of every declared input of type password, and under
\* DB_PASSWORD, ADMIN_PASSWORD and SECRET_KEY.
C14_SecretsPresent ==
  Prepared =>
    /\ \A k \in DOMAIN env.declared :
         env.declared[k] = "password" =>
           /\ EnvKey(k) \in DOMAIN env.out
           /\ env.out[EnvKey(k)] # <<>>
    /\ \A name \in {DB_PASSWORD, ADMIN_PASSWORD, SECRET_KEY} :
         /\ name \in DOMAIN env.out
         /\ env.out[name] # <<>>

\* A declared password the user gave no value for, and a baseline secret the
\* user gave an empty value for: both are generated.
C14_PasswordGenerated ==
  /\ Prepared
  /\ env.rand = "ok"
  /\ keyApiKey \in DOMAIN env.declared
  /\ env.declared[keyApiKey] = "password"
  /\ keyApiKey \notin DOMAIN env.inputs
  /\ keyAdminPassword \in DOMAIN env.inputs
  /\ env.inputs[keyAdminPassword] = <<>>
  /\ Len(env.out[EnvKey(keyApiKey)]) = 12
  /\ Len(env.out[ADMIN_PASSWORD]) = 12

\* C15: when no user input with a non-empty value translates to DOMAIN, the
\* result of prepareEnvVars has DOMAIN = localhost, whatever the definition
\* declares.
C15_DomainDefault ==
  (Prepared /\ GivenFor(DOMAIN_) = {}) =>
    /\ DOMAIN_ \in DOMAIN env.out
    /\ env.out[DOMAIN_] = localhost

\* C16: when the random source fails, generatePassword returns no token:
\* the process ends and prepareEnvVars returns no set of variables.
C16_FailsLoudly ==
  (env.done /\ env.rand # "ok") => (env.fatal /\ env.out = <<>>)

\* The git commands an Update ran.
GitCalls(calls) == {calls[i][1] : i \in 1..Len(calls)}

\* C21: an Update on a catalog directory that exists, the one an earlier
\* successful Update left included, runs git pull and no git clone; an
\* Update runs git clone only when the catalog directory is absent.
C21_PullIfPresent ==
  [][ret'.op = "Update" =>
       /\ catalog # "absent" => GitCalls(ret'.calls) = {"pull"}
       /\ "clone" \in GitCalls(ret'.calls) => catalog = "absent"]_vars

\* C22: a call that runs to its end leaves every record of the list with a
\* Directory that is on disk, when every record had one before the call.
TrackedDirsExist(list, dirOf) ==
  \A i \in 1..Len(list) : dirOf[list[i].Directory].exists

C22_TrackedDirsKept ==
  [][(/\ ret'.op \in {"Deploy", "Stop", "Start", "Destroy"}
      /\ ret'.err # "killed"
      /\ TrackedDirsExist(deployments[ret'.proc], dirs)) =>
       TrackedDirsExist(deployments'[ret'.proc], dirs')]_vars

\* C24: an Update that returns an error leaves a catalog directory that was
\* there before the call in place.
C24_FailedUpdateKeepsCatalog ==
  [][(ret'.op = "Update" /\ catalog # "absent" /\ ret'.err # "nil") =>
       catalog' # "absent"]_vars

\* C23: once the user destroys a slug again and again with the engine
\* reachable, the list eventually holds no record of the slug.
C23_DestroyedInTheEnd ==
  (drain # "") ~>
    (drain # "" /\ \A p \in procs : RecordsOf(deployments[p], drain) = {})

====
